---- MODULE Spec2Model ----
(***************************************************************************)
(* A model of the RAG server: the FastAPI handlers of main.py (health,     *)
(* add_content, remove_content, search_content, the lifespan startup) and  *)
(* the lazily created global EmbeddingService of embedding_service.py.     *)
(*                                                                         *)
(* Handlers are `async def` bodies without any await, so each runs to      *)
(* completion on the event loop before another starts: one action each.    *)
(* Real numbers are kept as integers in hundredths (0.7 is 70, 2.0 is      *)
(* 200); the vectors the embedder yields are chosen with integer norms so  *)
(* that every cosine distance is an exact number of hundredths.            *)
(* Optional[T] is a sequence: <<>> is None, <<x>> is the value x.          *)
(* The metadata column is stored and returned verbatim and takes part in   *)
(* no filter, ranking or error path; it is left out of the rows.           *)
(* The table's column defaults give an inserted row its id, never used     *)
(* before, and its created time.                                           *)
(***************************************************************************)
EXTENDS Integers, Sequences, FiniteSets, TLC

VARIABLES
    pc,                 \* "boot" before lifespan ran, "idle", "responded"
    embedding_service,  \* the global _embedding_service: <<>> or <<instance>>
    embedding_store,    \* the committed rows of table embedding_store
    next_id,            \* the id the table's default generates next
    db_now,             \* the database clock behind the created default; it
                        \* moves on between any two committed inserts
    response,           \* what the last handler answered (with its request)
    ctor_startup,       \* EmbeddingService() attempts made by lifespan
    ctor_request,       \* EmbeddingService() attempts made by handlers
    deleted             \* ids whose DELETE was answered with success

vars == <<pc, embedding_service, embedding_store, next_id, db_now, response,
          ctor_startup, ctor_request, deleted>>

---------------------------------------------------------------------------
(* Bounds of the model *)

MaxIds == 2

MaxCtor == 2

(* Constants of the program *)

DEFAULT_DISTANCE_THRESHOLD == 70

MaxUserIdLen == 9

MaxSourceLen == 255

MinLimit == 1

MaxLimit == 100

MinThreshold == 0

MaxThreshold == 200

None == <<>>

Some(x) == <<x>>

Min(a, b) == IF a < b THEN a ELSE b

RECURSIVE Repeat(_, _)
Repeat(s, n) == IF n = 0 THEN "" ELSE s \o Repeat(s, n - 1)

---------------------------------------------------------------------------
(* embedding_service.py *)

\* The texts of the model and what the pretrained model makes of them: a
\* deterministic function of the text, of fixed dimension.
Texts == {"the cat sat on the mat", "a feline on a rug", "financial markets crashed today"}

ModelEncode(text) ==
    CASE text = "the cat sat on the mat" -> <<1, 0>>
      [] text = "a feline on a rug" -> <<4, 3>>
      [] text = "financial markets crashed today" -> <<0, 1>>

\* EmbeddingService.__init__: the instance holds the model's dimension.
EmbeddingService == [dimension |-> Len(ModelEncode("the cat sat on the mat"))]

\* get_embedding_service(): create the global on first use, else reuse it.
\* fault = "model_load" makes SentenceTransformer(model_name) raise.
get_embedding_service(svc, fault) ==
    IF svc = None
    THEN IF fault = "model_load"
         THEN [raised |-> TRUE, service |-> None, constructed |-> 1]
         ELSE [raised |-> FALSE, service |-> Some(EmbeddingService), constructed |-> 1]
    ELSE [raised |-> FALSE, service |-> svc, constructed |-> 0]

\* A plausible slip: a fallback vector in place of the exception.
encode_zero_on_failure(text, fault) ==
    IF fault = "encode"
    THEN [raised |-> FALSE, vector |-> <<0, 0>>]
    ELSE [raised |-> FALSE, vector |-> ModelEncode(text)]

\* EmbeddingService.encode: the model's vector as a list, or the model's
\* exception (fault = "encode").
encode(text, fault) ==
    IF fault = "encode"
    THEN [raised |-> TRUE, vector |-> <<>>]
    ELSE [raised |-> FALSE, vector |-> ModelEncode(text)]

---------------------------------------------------------------------------
(* Conversions between Python values and SQL literals *)

\* str(x) of a float holding a whole number: "1.0".
PyStr(x) == ToString(x) \o ".0"

RECURSIVE JoinComma(_)
JoinComma(toks) ==
    IF Len(toks) = 0 THEN <<>>
    ELSE IF Len(toks) = 1 THEN <<toks[1]>>
    ELSE <<toks[1], ",">> \o JoinComma(Tail(toks))

\* "[" + ",".join(map(str, embedding)) + "]", as the sequence of its tokens.
EmbeddingStr(embedding) ==
    <<"[">> \o JoinComma([i \in 1..Len(embedding) |-> PyStr(embedding[i])]) \o <<"]">>

\* The database's cast of a number token: the number whose text it is.
ParseFloat(tok) == CHOOSE x \in -4..4 : PyStr(x) = tok

\* '...'::vector: the components between the brackets, commas skipped.
ParseVector(toks) ==
    [i \in 1..((Len(toks) - 1) \div 2) |-> ParseFloat(toks[2 * i])]

\* datetime.isoformat() of the created column (timezone-aware).
IsoFormat(t) == "2025-01-0" \o ToString(t) \o "T00:00:00+00:00"

\* %s::timestamptz: the instant a well-formed text denotes; anything else
\* is an invalid-input error of the statement.
IsTimestamp(s) == \E t \in 1..9 : IsoFormat(t) = s

ParseTimestamptz(s) == CHOOSE t \in 1..9 : IsoFormat(t) = s

\* str(result["id"]) and the id text a DELETE request carries.
IdStr(id) == ToString(id)

---------------------------------------------------------------------------
(* pgvector's <=> operator: cosine distance, 1 - cosine similarity *)

Dot(a, b) == a[1] * b[1] + a[2] * b[2]

Norm(a) == CHOOSE n \in 0..9 : n * n = Dot(a, a)

CosineDistance(a, b) == 100 - (100 * Dot(a, b)) \div (Norm(a) * Norm(b))

---------------------------------------------------------------------------
(* Pydantic request models *)

\* Field(..., max_length=9) and Field(None, max_length=255).
ValidAddContentRequest(req) ==
    /\ Len(req.user_id) <= MaxUserIdLen
    /\ (req.source # None => Len(req.source[1]) <= MaxSourceLen)

\* SearchRequest: limit ge=1 le=100, user_id max_length=9, source
\* max_length=255, distance_threshold ge=0.0 le=2.0; created_after and
\* created_before are plain optional strings.
ValidSearchRequest(req) ==
    /\ (req.limit # None => req.limit[1] >= MinLimit /\ req.limit[1] <= MaxLimit)
    /\ (req.user_id # None => Len(req.user_id[1]) <= MaxUserIdLen)
    /\ (req.source # None => Len(req.source[1]) <= MaxSourceLen)
    /\ (req.distance_threshold # None =>
            /\ req.distance_threshold[1] >= MinThreshold
            /\ req.distance_threshold[1] <= MaxThreshold)

\* Python's truth value of an Optional[str]: None and "" are false.
Truthy(opt) == opt # None /\ opt[1] # ""

---------------------------------------------------------------------------
(* The SQL statement of search_content *)

\* filters: the clauses appended, in the order of the code. The threshold
\* clause carries the query vector interpolated into its text.
SearchFilters(req, embedding_str, distance_threshold) ==
    (IF Truthy(req.user_id) THEN <<[kind |-> "user_id = %s"]>> ELSE <<>>)
    \o (IF Truthy(req.source) THEN <<[kind |-> "source = %s"]>> ELSE <<>>)
    \o (IF Truthy(req.created_after)
        THEN <<[kind |-> "created >= %s::timestamptz"]>> ELSE <<>>)
    \o (IF Truthy(req.created_before)
        THEN <<[kind |-> "created <= %s::timestamptz"]>> ELSE <<>>)
    \o (IF distance_threshold # None
        THEN <<[kind |-> "(embedding <=> literal::vector) <= %s",
                literal |-> embedding_str]>>
        ELSE <<>>)

\* params: [embedding_str] and then one value per clause appended.
SearchParams(req, embedding_str, distance_threshold) ==
    <<embedding_str>>
    \o (IF Truthy(req.user_id) THEN <<req.user_id[1]>> ELSE <<>>)
    \o (IF Truthy(req.source) THEN <<req.source[1]>> ELSE <<>>)
    \o (IF Truthy(req.created_after) THEN <<req.created_after[1]>> ELSE <<>>)
    \o (IF Truthy(req.created_before) THEN <<req.created_before[1]>> ELSE <<>>)
    \o (IF distance_threshold # None THEN <<distance_threshold[1]>> ELSE <<>>)

\* A plausible slip: `request.distance_threshold or DEFAULT_DISTANCE_THRESHOLD`.
EffectiveThresholdFalsy(req) ==
    IF req.distance_threshold # None /\ req.distance_threshold[1] # 0
    THEN req.distance_threshold
    ELSE Some(DEFAULT_DISTANCE_THRESHOLD)

\* request.distance_threshold if it is not None, else the environment default.
EffectiveThreshold(req) ==
    IF req.distance_threshold # None
    THEN req.distance_threshold
    ELSE Some(DEFAULT_DISTANCE_THRESHOLD)

\* final_params = [embedding_str] + params[1:] + [request.limit]
FinalParams(params, embedding_str, limit) ==
    <<embedding_str>> \o Tail(params) \o <<limit>>

\* The statement fails as a whole when a timestamptz cast has no valid input.
StatementInvalid(filters, final_params) ==
    \E i \in 1..Len(filters) :
        /\ filters[i].kind \in {"created >= %s::timestamptz", "created <= %s::timestamptz"}
        /\ ~IsTimestamp(final_params[i + 1])

\* A clause with its placeholder bound: the database casts the parameter
\* and the interpolated vector once, when it plans the statement.
BindClause(clause, param) ==
    CASE clause.kind = "user_id = %s" -> [kind |-> clause.kind, value |-> param]
      [] clause.kind = "source = %s" -> [kind |-> clause.kind, value |-> param]
      [] clause.kind = "created >= %s::timestamptz" ->
            [kind |-> clause.kind, value |-> ParseTimestamptz(param)]
      [] clause.kind = "created <= %s::timestamptz" ->
            [kind |-> clause.kind, value |-> ParseTimestamptz(param)]
      [] clause.kind = "(embedding <=> literal::vector) <= %s" ->
            [kind |-> clause.kind, value |-> param,
             vector |-> ParseVector(clause.literal)]

\* One bound clause of the WHERE on one row. A comparison with a NULL
\* source is not true.
ClauseHolds(row, bound) ==
    CASE bound.kind = "user_id = %s" -> row.user_id = bound.value
      [] bound.kind = "source = %s" -> row.source # None /\ row.source[1] = bound.value
      [] bound.kind = "created >= %s::timestamptz" -> row.created >= bound.value
      [] bound.kind = "created <= %s::timestamptz" -> row.created <= bound.value
      [] bound.kind = "(embedding <=> literal::vector) <= %s" ->
            CosineDistance(row.embedding, bound.vector) <= bound.value

\* WHERE c1 AND c2 AND ...: placeholder i + 1 of the statement belongs to
\* clause i (placeholder 1 is the vector of the select list).
WhereClause(filters, final_params) ==
    [i \in 1..Len(filters) |-> BindClause(filters[i], final_params[i + 1])]

WhereHolds(row, where) ==
    \A i \in 1..Len(where) : ClauseHolds(row, where[i])

\* SELECT ..., embedding <=> %s::vector AS distance FROM embedding_store WHERE ...
SelectRows(store, filters, final_params) ==
    LET where == WhereClause(filters, final_params)
        qvector == ParseVector(final_params[1])
    IN {[id |-> row.id, user_id |-> row.user_id, content |-> row.content,
         source |-> row.source, created |-> row.created,
         distance |-> CosineDistance(row.embedding, qvector)] :
           row \in {r \in store : WhereHolds(r, where)}}

\* A plausible slip: no ordering at all (any arrangement of the rows).
OrderByNothing(rows) ==
    {s \in [1..Cardinality(rows) -> rows] :
        \A i, j \in 1..Cardinality(rows) : i # j => s[i] # s[j]}

\* ORDER BY distance: every arrangement of the rows that is ascending in
\* distance (the order among equal distances is the database's choice).
OrderByDistance(rows) ==
    {s \in [1..Cardinality(rows) -> rows] :
        /\ \A i, j \in 1..Cardinality(rows) : i # j => s[i] # s[j]
        /\ \A i \in 1..(Cardinality(rows) - 1) : s[i].distance <= s[i + 1].distance}

\* A plausible slip: the LIMIT left out of the statement.
LimitDropped(ordered, limit) == ordered

\* LIMIT %s: the first `limit` rows; LIMIT NULL is no limit.
LimitRows(ordered, limit) ==
    IF limit = None THEN ordered
    ELSE SubSeq(ordered, 1, Min(limit[1], Len(ordered)))

\* SearchResult(id=str(row["id"]), ..., created=row["created"].isoformat())
SearchResult(row) ==
    [id |-> IdStr(row.id), user_id |-> row.user_id, content |-> row.content,
     source |-> row.source, distance |-> row.distance,
     created |-> IsoFormat(row.created)]

---------------------------------------------------------------------------
(* Responses *)

NoResponse == [op |-> "none"]

\* What a handler answered: the HTTP status, the prefix of the error detail,
\* and the body; with the request, the fault the environment injected, and
\* how many encode calls and database statements the request caused.
Resp(op, req, fault, status, detail, body, encode_calls, db_statements) ==
    [op |-> op, req |-> req, fault |-> fault, status |-> status,
     detail |-> detail, body |-> body, encode_calls |-> encode_calls,
     db_statements |-> db_statements]

\* FastAPI's answer to a request the Pydantic model rejects.
ValidationResp(op, req, fault) ==
    Resp(op, req, fault, 422, "validation error", <<>>, 0, 0)

\* raise HTTPException(status_code=500, detail=f"Database error: {str(e)}")
DatabaseErrorResp(op, req, fault, encode_calls, db_statements) ==
    Resp(op, req, fault, 500, "Database error", <<>>, encode_calls, db_statements)

AddCtor(n, k) == Min(n + k, MaxCtor)

---------------------------------------------------------------------------
(* main.py: lifespan *)

\* Startup: the connection test and the model load each sit in their own
\* try/except that only prints; the server starts serving in every case.
lifespan(fault) ==
    /\ pc = "boot"
    /\ pc' = "idle"
    /\ LET got == get_embedding_service(embedding_service, fault) IN
         /\ embedding_service' = got.service
         /\ ctor_startup' = AddCtor(ctor_startup, got.constructed)
    /\ UNCHANGED <<embedding_store, next_id, db_now, response, ctor_request, deleted>>

---------------------------------------------------------------------------
(* main.py: health_check *)

health_check(fault) ==
    /\ pc = "idle"
    /\ pc' = "responded"
    /\ response' =
         IF fault \in {"db_connect", "db_execute"}
         THEN Resp("health", <<>>, fault, 200, "",
                   [status |-> "unhealthy", database |-> "error"], 0,
                   IF fault = "db_execute" THEN 1 ELSE 0)
         ELSE Resp("health", <<>>, fault, 200, "",
                   [status |-> "healthy", database |-> "connected"], 0, 1)
    /\ UNCHANGED <<embedding_service, embedding_store, next_id, db_now,
                   ctor_startup, ctor_request, deleted>>

---------------------------------------------------------------------------
(* main.py: add_content *)

\* INSERT INTO embedding_store (...) VALUES (..., %s::vector, ...) RETURNING ...:
\* the row the statement makes, its id and created set by the table's defaults.
InsertedRow(req, embedding_str, id, created) ==
    [id |-> id, user_id |-> req.user_id, content |-> req.content,
     embedding |-> ParseVector(embedding_str), source |-> req.source,
     created |-> created]

\* ContentResponse(id=str(result["id"]), ..., created=result["created"].isoformat())
ContentResponse(row) ==
    [id |-> IdStr(row.id), user_id |-> row.user_id, content |-> row.content,
     source |-> row.source, created |-> IsoFormat(row.created)]

add_content(req, fault) ==
    /\ pc = "idle"
    /\ next_id <= MaxIds
    /\ pc' = "responded"
    /\ UNCHANGED <<ctor_startup, deleted>>
    /\ IF ~ValidAddContentRequest(req)
       THEN /\ response' = ValidationResp("add", req, fault)
            /\ UNCHANGED <<embedding_service, embedding_store, next_id, db_now, ctor_request>>
       ELSE LET got == get_embedding_service(embedding_service, fault)
                enc == encode(req.content, fault)
            IN /\ embedding_service' = got.service
               /\ ctor_request' = AddCtor(ctor_request, got.constructed)
               /\ IF got.raised
                  THEN /\ response' = DatabaseErrorResp("add", req, fault, 0, 0)
                       /\ UNCHANGED <<embedding_store, next_id, db_now>>
                  ELSE IF enc.raised
                  THEN /\ response' = DatabaseErrorResp("add", req, fault, 1, 0)
                       /\ UNCHANGED <<embedding_store, next_id, db_now>>
                  ELSE IF fault = "db_connect"
                  THEN /\ response' = DatabaseErrorResp("add", req, fault, 1, 0)
                       /\ UNCHANGED <<embedding_store, next_id, db_now>>
                  ELSE IF fault \in {"db_execute", "db_commit"}
                  THEN \* the statement or the commit raised: the transaction
                       \* is never committed and the connection is dropped
                       /\ response' = DatabaseErrorResp("add", req, fault, 1, 1)
                       /\ UNCHANGED <<embedding_store, next_id, db_now>>
                  ELSE LET row == InsertedRow(req, EmbeddingStr(enc.vector), next_id, db_now)
                       IN /\ embedding_store' = embedding_store \cup {row}
                          /\ next_id' = next_id + 1
                          /\ db_now' = db_now + 1
                          /\ response' = Resp("add", req, fault, 201, "",
                                              ContentResponse(row), 1, 1)

---------------------------------------------------------------------------
(* main.py: remove_content *)

\* DELETE FROM embedding_store WHERE id = %s: the rows the statement hits.
DeleteTargets(store, content_id) == {r \in store : IdStr(r.id) = content_id}

\* A plausible slip: the commit left out, so closing the connection rolls
\* the DELETE back.
CommitMissing(store, hit) == store

\* conn.commit() after the DELETE: the rows hit are gone for good.
CommitDelete(store, hit) == store \ hit

remove_content(content_id, fault) ==
    /\ pc = "idle"
    /\ pc' = "responded"
    /\ UNCHANGED <<embedding_service, next_id, db_now, ctor_startup, ctor_request>>
    /\ LET hit == DeleteTargets(embedding_store, content_id) IN
         IF fault = "db_connect"
         THEN /\ response' = DatabaseErrorResp("delete", content_id, fault, 0, 0)
              /\ UNCHANGED <<embedding_store, deleted>>
         ELSE IF fault = "db_execute"
         THEN /\ response' = DatabaseErrorResp("delete", content_id, fault, 0, 1)
              /\ UNCHANGED <<embedding_store, deleted>>
         ELSE IF Cardinality(hit) = 0
         THEN /\ response' = Resp("delete", content_id, fault, 404,
                                  "Content not found", <<>>, 0, 1)
              /\ UNCHANGED <<embedding_store, deleted>>
         ELSE IF fault = "db_commit"
         THEN /\ response' = DatabaseErrorResp("delete", content_id, fault, 0, 1)
              /\ UNCHANGED <<embedding_store, deleted>>
         ELSE /\ embedding_store' = CommitDelete(embedding_store, hit)
              /\ deleted' = deleted \cup {r.id : r \in hit}
              /\ response' = Resp("delete", content_id, fault, 200, "",
                                  [message |-> "Content deleted successfully",
                                   id |-> content_id], 0, 1)

---------------------------------------------------------------------------
(* main.py: search_content *)

search_content(req, fault) ==
    /\ pc = "idle"
    /\ pc' = "responded"
    /\ UNCHANGED <<embedding_store, next_id, db_now, ctor_startup, deleted>>
    /\ IF ~ValidSearchRequest(req)
       THEN /\ response' = ValidationResp("search", req, fault)
            /\ UNCHANGED <<embedding_service, ctor_request>>
       ELSE LET got == get_embedding_service(embedding_service, fault)
                enc == encode(req.query, fault)
                embedding_str == EmbeddingStr(enc.vector)
                distance_threshold == EffectiveThreshold(req)
                filters == SearchFilters(req, embedding_str, distance_threshold)
                params == SearchParams(req, embedding_str, distance_threshold)
                final_params == FinalParams(params, embedding_str, req.limit)
            IN /\ embedding_service' = got.service
               /\ ctor_request' = AddCtor(ctor_request, got.constructed)
               /\ IF got.raised
                  THEN response' = DatabaseErrorResp("search", req, fault, 0, 0)
                  ELSE IF enc.raised \/ fault = "db_connect"
                  THEN response' = DatabaseErrorResp("search", req, fault, 1, 0)
                  ELSE IF fault = "db_execute" \/ StatementInvalid(filters, final_params)
                  THEN response' = DatabaseErrorResp("search", req, fault, 1, 1)
                  ELSE \E ordered \in OrderByDistance(
                                        SelectRows(embedding_store, filters, final_params)) :
                         LET results == LimitRows(ordered, final_params[Len(final_params)])
                         IN response' = Resp("search", req, fault, 200, "",
                                             [i \in 1..Len(results) |-> SearchResult(results[i])],
                                             1, 1)

---------------------------------------------------------------------------
(* The client takes the response; the server is ready for the next request. *)

Deliver ==
    /\ pc = "responded"
    /\ pc' = "idle"
    /\ response' = NoResponse
    /\ UNCHANGED <<embedding_service, embedding_store, next_id, db_now,
                   ctor_startup, ctor_request, deleted>>

-------------------------------------------------------------------------------------------------------------------------------------------------
(* Requests *)

Owners == {"u1", "u2"}

Sources == {None, Some("s1")}

LongUserId == Repeat("u", MaxUserIdLen + 1)

LongSource == Repeat("s", MaxSourceLen + 1)

\* The texts stored; a search may ask for any text.
StoredTexts == {"the cat sat on the mat", "a feline on a rug"}

AddRequests == [user_id : Owners, content : StoredTexts, source : Sources]

ContentIds == {IdStr(i) : i \in 1..(MaxIds + 1)}

SearchRequests ==
    [query : Texts,
     limit : {Some(1), Some(2), Some(MaxLimit)},
     user_id : {None, Some(""), Some("u1")},
     source : Sources,
     distance_threshold : {None, Some(0), Some(MaxThreshold)},
     created_after : {None, Some(IsoFormat(2))},
     created_before : {None, Some(IsoFormat(1))}]

\* Requests for the runs with faults: a few well-formed ones, and ones with
\* a single field empty, malformed or out of range.
AddProbes ==
    {[user_id |-> "u1", content |-> "the cat sat on the mat", source |-> None],
     [user_id |-> "u2", content |-> "a feline on a rug", source |-> Some("s1")],
     [user_id |-> "", content |-> "the cat sat on the mat", source |-> Some("")],
     [user_id |-> LongUserId, content |-> "the cat sat on the mat", source |-> None],
     [user_id |-> "u1", content |-> "the cat sat on the mat", source |-> Some(LongSource)]}

\* limit defaults to 10 when the request leaves it out.
DefaultSearch ==
    [query |-> "the cat sat on the mat", limit |-> Some(10), user_id |-> None,
     source |-> None, distance_threshold |-> None, created_after |-> None,
     created_before |-> None]

SearchProbes ==
    {DefaultSearch}
    \cup {[DefaultSearch EXCEPT !.limit = l] : l \in {None, Some(0), Some(1), Some(MaxLimit + 1)}}
    \cup {[DefaultSearch EXCEPT !.user_id = Some(u)] : u \in {"", "u1", LongUserId}}
    \cup {[DefaultSearch EXCEPT !.source = Some(x)] : x \in {"", "s1", LongSource}}
    \cup {[DefaultSearch EXCEPT !.distance_threshold = Some(d)] :
            d \in {MinThreshold - 1, 0, MaxThreshold + 1}}
    \cup {[DefaultSearch EXCEPT !.created_after = Some(t)] :
            t \in {"", "yesterday", IsoFormat(2)}}
    \cup {[DefaultSearch EXCEPT !.created_before = Some(t)] :
            t \in {"", "yesterday", IsoFormat(1)}}

\* What the environment can make fail during one request.
Faults == {"none", "model_load", "encode", "db_connect", "db_execute", "db_commit"}

Init ==
    /\ pc = "boot"
    /\ embedding_service = None
    /\ embedding_store = {}
    /\ next_id = 1
    /\ db_now = 1
    /\ response = NoResponse
    /\ ctor_startup = 0
    /\ ctor_request = 0
    /\ deleted = {}

\* Runs in which the model loads and the database answers.
Next ==
    \/ lifespan("none")
    \/ health_check("none")
    \/ \E req \in AddRequests : add_content(req, "none")
    \/ \E content_id \in ContentIds : remove_content(content_id, "none")
    \/ \E req \in SearchRequests : search_content(req, "none")
    \/ Deliver

Spec == Init /\ [][Next]_vars

\* Runs in which the model load, an encode call, the connection, a statement
\* or a commit may fail, and requests may be malformed.
NextFault ==
    \/ \E fault \in {"none", "model_load", "db_connect"} : lifespan(fault)
    \/ \E fault \in {"none", "db_connect", "db_execute"} : health_check(fault)
    \/ \E req \in AddProbes, fault \in Faults : add_content(req, fault)
    \/ \E content_id \in ContentIds,
          fault \in {"none", "db_connect", "db_execute", "db_commit"} :
            remove_content(content_id, fault)
    \/ \E req \in SearchProbes, fault \in Faults \ {"db_commit"} : search_content(req, fault)
    \/ Deliver

SpecFault == Init /\ [][NextFault]_vars

---------------------------------------------------------------------------
(* What the claims speak of *)

SearchAnswered == response.op = "search" /\ response.status = 200

\* The stored row a result stands for.
StoredRow(result) == CHOOSE r \in embedding_store : IdStr(r.id) = result.id

ResultIds == {response.body[i].id : i \in 1..Len(response.body)}

\* The distance of a stored row to the query text of the request.
QueryDistance(r, req) == CosineDistance(ModelEncode(r.content), ModelEncode(req.query))

\* The threshold a request asks for: its own when it carries one.
RequestedThreshold(req) ==
    IF req.distance_threshold = None THEN DEFAULT_DISTANCE_THRESHOLD
    ELSE req.distance_threshold[1]

\* A row satisfies every filter the request carries a value for.
PassesFilters(r, req) ==
    /\ (req.user_id # None => r.user_id = req.user_id[1])
    /\ (req.source # None => r.source = req.source)
    /\ (req.created_after # None /\ IsTimestamp(req.created_after[1]) =>
            r.created >= ParseTimestamptz(req.created_after[1]))
    /\ (req.created_before # None /\ IsTimestamp(req.created_before[1]) =>
            r.created <= ParseTimestamptz(req.created_before[1]))

\* Q: the rows passing all filters and the threshold.
Qualifying(req) ==
    {r \in embedding_store :
        PassesFilters(r, req) /\ QueryDistance(r, req) <= RequestedThreshold(req)}

\* C1: every record a search returns satisfies all the filters the request
\* carries a value for (owner, source, created_after, created_before).
C1_FiltersRespected ==
    SearchAnswered =>
        \A i \in 1..Len(response.body) :
            /\ \E r \in embedding_store : IdStr(r.id) = response.body[i].id
            /\ PassesFilters(StoredRow(response.body[i]), response.req)

\* C2: every record a search returns is a stored record whose reported
\* distance is its cosine distance to the query vector, and that distance is
\* at most the request's threshold, or the default one when it carries none.
C2_ThresholdRespected ==
    SearchAnswered =>
        \A i \in 1..Len(response.body) :
            /\ \E r \in embedding_store : IdStr(r.id) = response.body[i].id
            /\ response.body[i].distance
                 = QueryDistance(StoredRow(response.body[i]), response.req)
            /\ response.body[i].distance <= RequestedThreshold(response.req)

\* A search with threshold 0.0 answered with a record while a stored record
\* farther away is left out though the limit would have had room for it.
C2_Witness ==
    /\ SearchAnswered
    /\ response.req.distance_threshold = Some(0)
    /\ Len(response.body) >= 1
    /\ Len(response.body) < response.req.limit[1]
    /\ \E r \in embedding_store :
          /\ PassesFilters(r, response.req)
          /\ QueryDistance(r, response.req) > 0
          /\ IdStr(r.id) \notin ResultIds

PlainSearch ==
    /\ SearchAnswered
    /\ response.req.limit # None
    /\ response.req.user_id = None
    /\ response.req.source = None
    /\ response.req.created_after = None
    /\ response.req.created_before = None
    /\ response.req.distance_threshold = None

\* Record r is in the result at distance 0, before every returned record
\* that is strictly farther from the query.
ReturnedFirst(r) ==
    \E i \in 1..Len(response.body) :
        /\ response.body[i].id = IdStr(r.id)
        /\ response.body[i].distance = 0
        /\ \A j \in 1..Len(response.body) : response.body[j].distance > 0 => i < j

\* C5 as stated: a plain search for the text of a stored (inserted and not
\* deleted) record returns that record at distance 0, before every record
\* that is strictly farther.
C5_RoundTrip ==
    PlainSearch =>
        \A r \in embedding_store : r.content = response.req.query => ReturnedFirst(r)

\* C5 amended: the same, for a record that has fewer than `limit` other
\* stored records at distance 0 from the query beside it.
C5_RoundTripWithinLimit ==
    PlainSearch =>
        \A r \in embedding_store :
            (/\ r.content = response.req.query
             /\ Cardinality({o \in embedding_store \ {r} :
                               QueryDistance(o, response.req) = 0}) < response.req.limit[1])
            => ReturnedFirst(r)

\* A plain search for a stored text that returns the record first and a
\* farther record after it.
C5_Witness ==
    /\ PlainSearch
    /\ Len(response.body) >= 2
    /\ StoredRow(response.body[1]).content = response.req.query
    /\ response.body[1].distance = 0
    /\ response.body[2].distance > 0

---------------------------------------------------------------------------

\* The outcome the caller reads off a response.
Outcome(resp) ==
    CASE resp.status \in {200, 201} -> "Ok"
      [] resp.status = 404 -> "NotFound"
      [] resp.status = 422 -> "ValidationError"
      [] resp.status = 500 /\ resp.detail = "Database error" -> "StorageError"
      [] OTHER -> "EmbeddingUnavailable"

\* C4: no search returns a record whose delete was answered with success;
\* a delete of an id that is not stored (deleted before, or never stored)
\* leaves the store as it is and is never answered with success: its
\* outcome is NotFound, and a StorageError only when the connection or the
\* DELETE statement itself failed during the request.
C4_DeleteFinal ==
    /\ [](SearchAnswered => \A d \in deleted : IdStr(d) \notin ResultIds)
    /\ [][(/\ pc = "idle"
           /\ response'.op = "delete"
           /\ DeleteTargets(embedding_store, response'.req) = {})
          => /\ embedding_store' = embedding_store
             /\ deleted' = deleted
             /\ Outcome(response') = (IF response'.fault \in {"db_connect", "db_execute"}
                                      THEN "StorageError" ELSE "NotFound")]_vars

\* The second delete of an id, answered NotFound, with other records stored.
C4_Witness ==
    /\ response.op = "delete"
    /\ response.fault = "none"
    /\ response.status = 404
    /\ \E d \in deleted : IdStr(d) = response.req
    /\ embedding_store # {}

\* C6: every stored record's vector is the encoding of its text; an insert
\* that is not answered with success leaves the store as it was, and one
\* answered with success adds exactly one record, holding the request's text
\* and the vector of that text.
C6_VectorConsistent ==
    /\ [](\A r \in embedding_store : r.embedding = ModelEncode(r.content))
    /\ [][(pc = "idle" /\ response'.op = "add")
          => IF response'.status = 201
             THEN \E row \in embedding_store' \ embedding_store :
                    /\ embedding_store' = embedding_store \cup {row}
                    /\ row.content = response'.req.content
                    /\ row.embedding = ModelEncode(row.content)
             ELSE embedding_store' = embedding_store]_vars

\* An insert that failed in the embedding step, with a record stored before.
C6_Witness ==
    /\ response.op = "add"
    /\ response.fault = "encode"
    /\ response.status = 500
    /\ response.encode_calls = 1
    /\ embedding_store # {}

\* C7: a request that failed because the embedder could not be loaded or
\* could not encode its text is not answered with the StorageError outcome.
C7_EmbeddingErrorDistinct ==
    (/\ response.op \in {"add", "search"}
     /\ response.status = 500
     /\ response.fault \in {"model_load", "encode"})
    => Outcome(response) # "StorageError"

\* A search request with a field that is malformed or out of range.
MalformedSearch(req) ==
    \/ ~ValidSearchRequest(req)
    \/ req.created_after # None /\ ~IsTimestamp(req.created_after[1])
    \/ req.created_before # None /\ ~IsTimestamp(req.created_before[1])

\* C8: a malformed or out-of-range request is answered with ValidationError
\* without an encode call and without a database statement (here: in
\* requests during which nothing of the environment fails).
C8_RejectedBeforeWork ==
    /\ (response.op = "add" /\ ~ValidAddContentRequest(response.req)) =>
          /\ Outcome(response) = "ValidationError"
          /\ response.encode_calls = 0
          /\ response.db_statements = 0
    /\ (response.op = "search" /\ response.fault = "none"
          /\ MalformedSearch(response.req)) =>
          /\ Outcome(response) = "ValidationError"
          /\ response.encode_calls = 0
          /\ response.db_statements = 0

\* What a health result says of the embedder and of the store.
HealthEmbedderReady(body) == body.status = "healthy"

HealthStoreReachable(body) == body.database = "connected"

\* C9: the health result tells whether the embedder is ready and whether the
\* store is reachable, each as it is.
C9_HealthIndependent ==
    response.op = "health" =>
        /\ HealthEmbedderReady(response.body) = (embedding_service # None)
        /\ HealthStoreReachable(response.body) = (response.fault = "none")

\* C10: request handling never attempts to construct the EmbeddingService,
\* and startup attempts it at most once.
C10_ConstructedAtStartupOnly ==
    /\ ctor_request = 0
    /\ ctor_startup <= 1

====
